---- MODULE Spec2Model ----
(***************************************************************************)
(* Model of homeassistant/block_async_io.py: the installer enable(), its   *)
(* three allow predicates, and the guarded-call wrapper (protect_loop /    *)
(* raise_for_blocking_call) and frame primitive (get_current_frame) that   *)
(* it imports from util/loop.py and helpers/frame.py.                      *)
(*                                                                         *)
(* Python values are records [type, val, key]; val is the text of the      *)
(* value as a sequence of characters, so that str(), startswith() and      *)
(* endswith() are computed on characters; key is how the value hashes.     *)
(*                                                                         *)
(* Threads interleave: enable() is a sequence of unsynchronised statements *)
(* that each read a name, wrap what they read and rebind the name; an      *)
(* import registers its module before the module's body runs and removes   *)
(* it when the body fails, and takes it out and puts it back when the body *)
(* has ended; each guard layer of an import reads the registry when the    *)
(* call reaches it, and the original starts after the last of them; the    *)
(* original glob.glob looks up iglob, and os.scandir for a pathname with a *)
(* wildcard, after its own guards decided.  The other guards and originals *)
(* read nothing another thread writes and are taken in one step.           *)
(***************************************************************************)
EXTENDS Integers, Sequences, FiniteSets

VARIABLES
    in_tests,      \* _IN_TESTS, fixed when the module is imported
    bindings,      \* guarded name -> guard registrations wrapped around the original, innermost first
    sys_modules,   \* names in the loaded-module registry (sys.modules)
    installers,    \* threads that have called enable(), in the order they captured their identifier
    pc,            \* thread -> where the thread is: idle, inside enable(), inside an import or a glob
    turn,          \* the thread inside enable() that took the latest enable() step (0: none)
    preemptions,   \* times a thread inside enable() was overtaken by another thread's enable() step
    last,          \* observation of the call made by the latest step, until its caller takes it
    noted          \* one earlier predicate evaluation, remembered since the latest enable() step (SpecIdem only)

vars == <<in_tests, bindings, sys_modules, installers, pc, turn, preemptions, last, noted>>

(* ------------------------------ bounds -------------------------------- *)
MaxInstalls == 2

\* overlapping enable() calls: how often one may be overtaken by the other
MaxPreemptions == 1

\* two thread identifiers: enough for a loop thread and a thread that is not
ThreadIds == {1, 2}

(* ------------------------------ text ---------------------------------- *)
S_proc == <<"/", "p", "r", "o", "c">>
S_proc_1 == <<"/", "p", "r", "o", "c", "/", "1">>
S_etc == <<"/", "e", "t", "c">>
S_et_star_h_star == <<"/", "e", "t", "*", "/", "h", "*">>
S_dot == <<".">>
S_os == <<"o", "s">>
S_yaml == <<"y", "a", "m", "l">>
S_no == <<"n", "o">>
S_SE_P == <<"S", "E", ".", "P">>
S_pydevd_py == <<"p", "y", "d", "e", "v", "d", ".", "p", "y">>
S_dbg_pydevd_py == <<"d", "/", "p", "y", "d", "e", "v", "d", ".", "p", "y">>
S_app_py == <<"a", "p", "p", ".", "p", "y">>
S_loop_py == <<"l", "o", "o", "p", ".", "p", "y">>
S_glob_py == <<"g", "l", "o", "b", ".", "p", "y">>
S_block_async_io_py == <<"b", "l", "o", "c", "k", "_", "a", "s", "y", "n", "c", "_", "i", "o", ".", "p", "y">>

startswith(s, prefix) ==
    /\ Len(prefix) <= Len(s)
    /\ SubSeq(s, 1, Len(prefix)) = prefix

endswith(s, suffix) ==
    /\ Len(suffix) <= Len(s)
    /\ SubSeq(s, Len(s) - Len(suffix) + 1, Len(s)) = suffix

Range(f) == {f[i] : i \in DOMAIN f}

\* A value has a type, its content, what str() prints for it, and what it is
\* as a dict key: "str" when it hashes and compares as the str of its content,
\* "own" when it is hashable and equal to no str, "none" when it cannot be
\* hashed.
\* a str; an instance of a subclass of str that keeps str's hash and equality
\* and whose str() prints `printed` (the content for a plain subclass, the
\* member's name for an enum member); a pathlib path whose str() prints v; a
\* bytes object holding the printable ASCII characters v; another hashable
\* value; a value that cannot be hashed
Str(v) == [type |-> "str", val |-> v, printed |-> v, key |-> "str"]
StrSubclass(v, printed) == [type |-> "StrSubclass", val |-> v, printed |-> printed, key |-> "str"]
PathLike(v) == [type |-> "PathLike", val |-> v, printed |-> v, key |-> "own"]
Bytes(v) == [type |-> "bytes", val |-> v, printed |-> v, key |-> "own"]
Hashable(type, v) == [type |-> type, val |-> v, printed |-> v, key |-> "own"]
Unhashable(type, v) == [type |-> type, val |-> v, printed |-> v, key |-> "none"]

\* the quote repr() puts around bytes: double when the content has a single
\* quote and no double quote, single otherwise
BytesQuote(s) == IF "'" \in Range(s) /\ "\"" \notin Range(s) THEN "\"" ELSE "'"

\* the content of a bytes repr: the backslash and the enclosing quote are
\* escaped with a backslash
RECURSIVE BytesEscaped(_, _)
BytesEscaped(s, quote) ==
    IF s = <<>> THEN <<>>
    ELSE (IF Head(s) \in {"\\", quote} THEN <<"\\", Head(s)>> ELSE <<Head(s)>>)
             \o BytesEscaped(Tail(s), quote)

\* str(x) of a non-str value: str() of a bytes object is its repr, b'...' or
\* b"..."; any other value prints what its class makes of it
StrOf(x) ==
    IF x.type = "bytes"
    THEN <<"b", BytesQuote(x.val)>> \o BytesEscaped(x.val, BytesQuote(x.val))
             \o <<BytesQuote(x.val)>>
    ELSE x.printed

(* --------------------------- module constants -------------------------- *)
ALLOWED_FILE_PREFIXES == {S_proc}

Names == {"putrequest", "sleep", "glob", "iglob", "listdir", "scandir", "open", "import_module"}

\* the loaded-module registry when the process starts: "os" is loaded, "yaml" is not
InitialModules == {S_os}

(* --------------------- helpers/frame.py (imported) --------------------- *)
\* get_current_frame(depth): the frame `depth` levels above the caller of
\* get_current_frame; stack[1] is that caller.  It fails with ValueError when
\* the stack is shallower than the requested depth, and with `fault` when
\* frame introspection itself fails.
get_current_frame(depth, stack, fault) ==
    IF fault # "none" THEN [exc |-> fault, co_filename |-> <<>>]
    ELSE IF depth + 1 > Len(stack) THEN [exc |-> "ValueError", co_filename |-> <<>>]
    ELSE [exc |-> "none", co_filename |-> stack[depth + 1]]

(* ----------------------- the allow predicates -------------------------- *)
\* A predicate evaluates to "True", "False" or the name of the exception it raises.
Bool(b) == IF b THEN "True" ELSE "False"

\* (variant: the module name is also looked up among the keyword arguments)
_check_import_call_allowed_kw(mapped_args, modules) ==
    IF "args" \notin DOMAIN mapped_args THEN "False"
    ELSE IF Len(mapped_args.args) = 0
         THEN (IF Len(mapped_args.kwargs) = 0 THEN "False"
               ELSE IF mapped_args.kwargs[1][2].key = "none" THEN "TypeError"
               ELSE Bool(/\ mapped_args.kwargs[1][2].key = "str"
                         /\ mapped_args.kwargs[1][2].val \in modules))
    ELSE IF mapped_args.args[1].key = "none" THEN "TypeError"
    ELSE Bool(mapped_args.args[1].key = "str" /\ mapped_args.args[1].val \in modules)

\* `args[0] in sys.modules` looks the value up among the registry's keys, which
\* are str: the lookup hashes the value and fails with TypeError when it cannot
\* be hashed; it finds a value that hashes and compares as a str in the
\* registry, of whatever type; any other hashable value is not found
_check_import_call_allowed(mapped_args, modules) ==
    IF "args" \notin DOMAIN mapped_args THEN "False"
    ELSE IF Len(mapped_args.args) = 0 THEN "False"
    ELSE IF mapped_args.args[1].key = "none" THEN "TypeError"
    ELSE Bool(mapped_args.args[1].key = "str" /\ mapped_args.args[1].val \in modules)

_check_file_allowed(mapped_args) ==
    IF "args" \notin DOMAIN mapped_args THEN "KeyError"
    ELSE LET args == mapped_args.args IN
         IF Len(args) = 0 THEN "IndexError"
         ELSE LET path == IF args[1].type = "str" THEN args[1].val ELSE StrOf(args[1])
              IN Bool(\E prefix \in ALLOWED_FILE_PREFIXES : startswith(path, prefix))

SleepFrameDepth == 4

_check_sleep_call_allowed(stack, fault) ==
    LET frame == get_current_frame(SleepFrameDepth, stack, fault) IN
    IF frame.exc = "ValueError" THEN "False"
    ELSE IF frame.exc # "none" THEN frame.exc
    ELSE Bool(endswith(frame.co_filename, S_pydevd_py))

\* check_allowed(mapped_args) for the predicate a registration names;
\* `stack` starts at the predicate's own frame
CheckAllowed(pred, mapped_args, stack, fault, modules) ==
    CASE pred = "_check_sleep_call_allowed" -> _check_sleep_call_allowed(stack, fault)
      [] pred = "_check_file_allowed" -> _check_file_allowed(mapped_args)
      [] pred = "_check_import_call_allowed" -> _check_import_call_allowed(mapped_args, modules)

(* ----------------------- util/loop.py (imported) ----------------------- *)
\* protect_loop(func, loop_thread_id, strict, strict_core, check_allowed):
\* func wrapped in one more guard registration
protect_loop(func, loop_thread_id, strict, strict_core, check_allowed) ==
    Append(func, [loop_thread_id |-> loop_thread_id, strict |-> strict,
                  strict_core |-> strict_core, check_allowed |-> check_allowed])

\* the strictness mode a registration's two flags select
Mode(reg) ==
    IF reg.strict THEN "strict"
    ELSE IF reg.strict_core THEN "strict-core"
    ELSE "lenient"

\* the process-wide relaxed-mode flag read by strict-core registrations
relaxed_mode == FALSE

\* raise_for_blocking_call: "proceed" when the predicate exempts the call,
\* "warn" or "violation" by the strictness mode otherwise; a failure raised by
\* the predicate is not caught here.  `stack` starts at this function's frame.
\* An evaluation is recorded with what its predicate reads besides the
\* arguments: the frames for the sleep predicate, the registry for the import
\* predicate.
raise_for_blocking_call(reg, mapped_args, stack, fault, modules) ==
    LET pred == reg.check_allowed
        dec == IF pred = "None" THEN "False"
               ELSE CheckAllowed(pred, mapped_args, <<S_block_async_io_py>> \o stack, fault, modules)
        evals == IF pred = "None" THEN <<>>
                 ELSE <<[pred |-> pred, dec |-> dec,
                         frames |-> IF pred = "_check_sleep_call_allowed" THEN stack ELSE <<>>,
                         modules |-> IF pred = "_check_import_call_allowed" THEN modules
                                     ELSE {}]>>
    IN [evals |-> evals,
        action |-> CASE dec = "True" -> "proceed"
                     [] dec = "False" ->
                            (CASE Mode(reg) = "strict" -> "violation"
                               [] Mode(reg) = "strict-core" ->
                                      IF relaxed_mode THEN "warn" ELSE "violation"
                               [] Mode(reg) = "lenient" -> "warn")
                     [] OTHER -> dec]

\* the frames from raise_for_blocking_call outward when the i-th wrapper of
\* `regs` evaluates: that wrapper, the wrappers around it, then the caller's stack
WrapperFrames(regs, i) == [k \in 1..(Len(regs) - i + 1) |-> S_loop_py]

\* the i-th wrapper of `regs`, on its loop thread, asks raise_for_blocking_call
GuardLayer(regs, i, mapped_args, ctx, modules) ==
    raise_for_blocking_call(regs[i], mapped_args,
                            <<S_loop_py>> \o WrapperFrames(regs, i) \o ctx.stack,
                            ctx.fault, modules)

\* protected_loop_func of the i-th registration invoked on thread t; `original`
\* is what running the wrapped original yields (reached when i = 0)
RECURSIVE protected_loop_func(_, _, _, _, _, _, _)
protected_loop_func(regs, i, t, mapped_args, ctx, modules, original) ==
    IF i = 0
    THEN original
    ELSE LET inner == protected_loop_func(regs, i - 1, t, mapped_args, ctx, modules, original) IN
         IF t # regs[i].loop_thread_id THEN inner
         ELSE LET d == GuardLayer(regs, i, mapped_args, ctx, modules)
              IN CASE d.action = "proceed" ->
                          [inner EXCEPT !.evals = d.evals \o @]
                   [] d.action = "warn" ->
                          [inner EXCEPT !.evals = d.evals \o @, !.warnings = @ + 1]
                   [] OTHER ->
                          [outcome |-> d.action, warnings |-> 0, evals |-> d.evals,
                           origArgs |-> <<>>]


(* ------------------------------ enable() ------------------------------- *)
\* (variant: the identifier of the main thread whichever thread asks)
get_ident_main(t) == 1

\* threading.get_ident() on thread t
get_ident(t) == t

\* the names enable() rebinds, in the order of its statements
EnableOrder ==
    <<"putrequest", "sleep", "glob", "iglob", "listdir", "scandir", "open", "import_module">>

\* (variant: the glob guards moved under the test-harness branch)
Statements_glob_skipped(tests) == IF tests THEN SubSeq(EnableOrder, 1, 2) ELSE EnableOrder

\* the rebinding statements one enable() call executes: the last four are
\* under `if not _IN_TESTS:`
Statements(tests) == IF tests THEN SubSeq(EnableOrder, 1, 4) ELSE EnableOrder

GuardedNames(tests) == Range(Statements(tests))

\* (variant: sleep registered like the lenient rows)
Registry_lenient_sleep(name) ==
    CASE name = "putrequest" ->
             [strict |-> TRUE, strict_core |-> TRUE, check_allowed |-> "None"]
      [] name = "sleep" ->
             [strict |-> FALSE, strict_core |-> FALSE, check_allowed |-> "_check_sleep_call_allowed"]
      [] name \in {"glob", "iglob", "listdir", "scandir"} ->
             [strict |-> FALSE, strict_core |-> FALSE, check_allowed |-> "None"]
      [] name = "open" ->
             [strict |-> FALSE, strict_core |-> FALSE, check_allowed |-> "_check_file_allowed"]
      [] name = "import_module" ->
             [strict |-> FALSE, strict_core |-> FALSE, check_allowed |-> "_check_import_call_allowed"]

\* the keyword arguments enable() gives protect_loop for each name
\* (strict and strict_core are True, check_allowed None, when not given)
Registry(name) ==
    CASE name = "putrequest" ->
             [strict |-> TRUE, strict_core |-> TRUE, check_allowed |-> "None"]
      [] name = "sleep" ->
             [strict |-> TRUE, strict_core |-> TRUE, check_allowed |-> "_check_sleep_call_allowed"]
      [] name \in {"glob", "iglob", "listdir", "scandir"} ->
             [strict |-> FALSE, strict_core |-> FALSE, check_allowed |-> "None"]
      [] name = "open" ->
             [strict |-> FALSE, strict_core |-> FALSE, check_allowed |-> "_check_file_allowed"]
      [] name = "import_module" ->
             [strict |-> FALSE, strict_core |-> FALSE, check_allowed |-> "_check_import_call_allowed"]

\* no call
NoCall ==
    [name |-> "none", thread |-> 0, mapped_args |-> [args |-> <<>>, kwargs |-> <<>>],
     stack |-> <<>>, fault |-> "none", orig |-> "none", regs |-> <<>>, nested |-> <<>>,
     installers |-> <<>>, tests |-> FALSE, modules |-> {}, outcome |-> "none",
     flagged |-> 0, warnings |-> 0, evals |-> <<>>, origArgs |-> <<>>]

\* where a thread is: outside every call modelled in steps, at a statement of
\* enable(), between two guard layers of import_module, inside the original
\* import_module, or inside the original glob.glob (`call`: the call as far as
\* it has got; `dirs`: the directories still to scan, k of them scanned)
Idle ==
    [at |-> "idle", k |-> 0, id |-> 0, func |-> <<>>, module |-> <<>>, call |-> NoCall,
     dirs |-> <<>>]
AtRead(k, id) ==
    [at |-> "read", k |-> k, id |-> id, func |-> <<>>, module |-> <<>>, call |-> NoCall,
     dirs |-> <<>>]
AtStore(k, id, func) ==
    [at |-> "store", k |-> k, id |-> id, func |-> func, module |-> <<>>, call |-> NoCall,
     dirs |-> <<>>]
AtImport(at, module) ==
    [at |-> at, k |-> 0, id |-> 0, func |-> <<>>, module |-> module, call |-> NoCall,
     dirs |-> <<>>]
AtGuard(k, call) ==
    [at |-> "import_guard", k |-> k, id |-> 0, func |-> <<>>, module |-> <<>>, call |-> call,
     dirs |-> <<>>]
AtGlob(at, k, call, dirs) ==
    [at |-> at, k |-> k, id |-> 0, func |-> <<>>, module |-> <<>>, call |-> call,
     dirs |-> dirs]

InEnable(t) == pc[t].at \in {"read", "store"}

NoEval == [pred |-> "none", mapped_args |-> [args |-> <<>>, kwargs |-> <<>>],
           dec |-> "none", frames |-> <<>>, changed |-> FALSE]

\* the result of the latest call has been taken.  `last` records what was
\* observed of a call and Return changes nothing else, so every step of the
\* program is taken from a state in which no result is pending
ResultTaken == last = NoCall

\* thread t is inside no call: it can call enable() or a guarded name
CanCall(t) == ResultTaken /\ pc[t] = Idle

\* the threads that can make a call
Callers == {t \in ThreadIds : CanCall(t)}

\* an enable() step of thread t overtakes another thread that is inside enable()
Preempts(t) == turn # 0 /\ turn # t

\* the threads run enable() statement by statement, with no lock: t may take
\* its next enable() step when that overtakes nobody, or when the limit on
\* overtakings is not reached
EnableStep(t, limit, finishes) ==
    /\ Preempts(t) => preemptions < limit
    /\ preemptions' = IF Preempts(t) THEN preemptions + 1 ELSE preemptions
    /\ turn' = IF finishes THEN 0 ELSE t
    /\ last' = NoCall
    /\ noted' = NoEval
    /\ UNCHANGED <<in_tests, sys_modules>>

\* (variant: enable() that returns at once when a guard is already installed)
EnableBegin_once(t, limit) ==
    /\ CanCall(t)
    /\ Len(installers) < MaxInstalls
    /\ installers' = Append(installers, t)
    /\ IF \E n \in Names : bindings[n] # <<>>
       THEN /\ pc' = pc
            /\ EnableStep(t, limit, TRUE)
       ELSE /\ pc' = [pc EXCEPT ![t] = AtRead(1, get_ident(t))]
            /\ EnableStep(t, limit, FALSE)
    /\ UNCHANGED bindings

\* enable() is entered: loop_thread_id = threading.get_ident()
EnableBegin(t, limit) ==
    /\ CanCall(t)
    /\ Len(installers) < MaxInstalls
    /\ installers' = Append(installers, t)
    /\ pc' = [pc EXCEPT ![t] = AtRead(1, get_ident(t))]
    /\ EnableStep(t, limit, FALSE)
    /\ UNCHANGED bindings

\* the k-th statement evaluates its argument: what the name is bound to now
EnableRead(t, limit) ==
    /\ ResultTaken
    /\ pc[t].at = "read"
    /\ pc' = [pc EXCEPT ![t] =
                 AtStore(pc[t].k, pc[t].id, bindings[Statements(in_tests)[pc[t].k]])]
    /\ EnableStep(t, limit, FALSE)
    /\ UNCHANGED <<bindings, installers>>

\* the k-th statement wraps what it read and rebinds the name
EnableStore(t, limit) ==
    /\ ResultTaken
    /\ pc[t].at = "store"
    /\ \E name \in {Statements(in_tests)[pc[t].k]} :
          bindings' = [bindings EXCEPT ![name] =
              protect_loop(pc[t].func, pc[t].id, Registry(name).strict,
                           Registry(name).strict_core, Registry(name).check_allowed)]
    /\ IF pc[t].k < Len(Statements(in_tests))
       THEN /\ pc' = [pc EXCEPT ![t] = AtRead(pc[t].k + 1, pc[t].id)]
            /\ EnableStep(t, limit, FALSE)
       ELSE /\ pc' = [pc EXCEPT ![t] = Idle]
            /\ EnableStep(t, limit, TRUE)
    /\ UNCHANGED installers

(* ------------------------- guarded invocations ------------------------- *)
\* the parameter a path or module name is passed by when given by keyword
KeywordOf(name) ==
    CASE name \in {"glob", "iglob"} -> "pathname"
      [] name \in {"listdir", "scandir"} -> "path"
      [] name = "open" -> "file"
      [] name = "import_module" -> "name"

Positional(v) == [args |-> <<v>>, kwargs |-> <<>>]
ByKeyword(name, v) == [args |-> <<>>, kwargs |-> <<<<KeywordOf(name), v>>>>]

\* the call shapes tried for each guarded name
ArgShapes(name) ==
    CASE name = "putrequest" ->
             {[args |-> <<Hashable("HTTPConnection", <<"c">>), Str(<<"G", "E", "T">>),
                          Str(<<"/">>)>>, kwargs |-> <<>>]}
      [] name = "sleep" -> {Positional(Hashable("int", <<"1">>))}
      [] name = "glob" ->
             {Positional(Str(S_proc_1)), ByKeyword(name, Str(S_etc)),
              Positional(Str(S_et_star_h_star))}
      [] name \in {"iglob", "listdir", "scandir"} ->
             {Positional(Str(S_proc_1)), ByKeyword(name, Str(S_etc))}
      [] name = "open" ->
             {Positional(Str(S_proc_1)), Positional(Str(S_etc)), Positional(PathLike(S_proc_1)),
              Positional(Bytes(S_proc_1)), Positional(StrSubclass(S_proc_1, S_SE_P)),
              ByKeyword(name, Str(S_etc))}
      [] name = "import_module" ->
             {Positional(Str(S_os)), Positional(Str(S_yaml)), Positional(Str(S_no)),
              Positional(StrSubclass(S_os, S_SE_P)),
              Positional(Unhashable("list", <<"[", "]">>)),
              ByKeyword(name, Str(S_os)), ByKeyword(name, Str(S_yaml))}

\* the caller's stack (the frame that makes the call first) and the failure,
\* if any, of frame introspection during the call
DefaultContext == [stack |-> <<S_app_py, S_app_py>>, fault |-> "none"]

Contexts(name) ==
    IF name = "sleep"
    THEN {DefaultContext,
          [stack |-> <<S_dbg_pydevd_py, S_dbg_pydevd_py>>, fault |-> "none"],
          [stack |-> <<S_dbg_pydevd_py, S_app_py>>, fault |-> "none"],
          [stack |-> <<S_app_py, S_dbg_pydevd_py>>, fault |-> "none"],
          [stack |-> <<S_dbg_pydevd_py>>, fault |-> "none"],
          [stack |-> <<S_dbg_pydevd_py, S_dbg_pydevd_py>>, fault |-> "RecursionError"]}
    ELSE {DefaultContext}

\* what the original callable does when it is reached
OrigOutcomes == {"return", "raise"}

\* the path or module an invocation names, however it is passed
NamedValue(mapped_args) ==
    IF Len(mapped_args.args) > 0 THEN mapped_args.args[1] ELSE mapped_args.kwargs[1][2]

NamedModule(mapped_args) == NamedValue(mapped_args).val

\* an original that runs with mapped_args and ends in `orig`
Ran(mapped_args, orig) ==
    [outcome |-> orig, warnings |-> 0, evals |-> <<>>, origArgs |-> <<mapped_args>>]

\* the call the original glob.glob makes: iglob(pathname, root_dir=root_dir,
\* dir_fd=dir_fd, recursive=recursive, include_hidden=include_hidden)
IglobArgs(mapped_args) ==
    [args |-> <<NamedValue(mapped_args)>>,
     kwargs |-> <<<<"root_dir", Hashable("NoneType", <<>>)>>,
                  <<"dir_fd", Hashable("NoneType", <<>>)>>,
                  <<"recursive", Hashable("bool", <<"0">>)>>,
                  <<"include_hidden", Hashable("bool", <<"0">>)>>>>]

\* glob.has_magic: the pathname has a wildcard
has_magic(s) == \E i \in DOMAIN s : s[i] \in {"*", "?", "["}

\* os.path.split(pathname)[0]: what precedes the last slash, without trailing
\* slashes unless it is the root
RECURSIVE rstrip_slash(_)
rstrip_slash(s) ==
    IF s # <<>> /\ s[Len(s)] = "/" THEN rstrip_slash(SubSeq(s, 1, Len(s) - 1)) ELSE s

dirname(s) ==
    LET slashes == {i \in DOMAIN s : s[i] = "/"}
        head == IF slashes = {} THEN <<>>
                ELSE SubSeq(s, 1, CHOOSE i \in slashes : \A j \in slashes : j <= i)
    IN IF rstrip_slash(head) = <<>> THEN head ELSE rstrip_slash(head)

\* the first wildcard of a pathname that has one
RECURSIVE FirstMagic(_)
FirstMagic(s) == IF Head(s) \in {"*", "?", "["} THEN 1 ELSE 1 + FirstMagic(Tail(s))

\* a component after the one with the first wildcard has a wildcard too
LaterMagic(s) ==
    /\ has_magic(s)
    /\ \E m \in {FirstMagic(s)} :
          \E i \in (m + 1)..Len(s) :
             s[i] = "/" /\ \E j \in (i + 1)..Len(s) : s[j] \in {"*", "?", "["}

\* the os.scandir calls made while the items of iglob(pathname) are produced:
\* none for a pathname without wildcard; otherwise the directory in front of
\* the first component with a wildcard is scanned (the current directory when
\* there is none), and then, when a later component has a wildcard too, each
\* directory matched so far; `matched` is those directories, which depend on
\* the file system
ScandirCalls(pathname, matched) ==
    IF ~has_magic(pathname.val) THEN <<>>
    ELSE LET front == dirname(SubSeq(pathname.val, 1, FirstMagic(pathname.val)))
             first == Positional([pathname EXCEPT !.val = IF front = <<>> THEN S_dot ELSE front])
         IN IF LaterMagic(pathname.val)
            THEN <<first>> \o [i \in DOMAIN matched |->
                                  Positional([pathname EXCEPT !.val = matched[i]])]
            ELSE <<first>>

\* directories of the file system a pattern can match
Directories == {S_etc, S_proc}

\* the directories that match the pathname up to its first wildcard
MatchedBy(s) == {d \in Directories : startswith(d, SubSeq(s, 1, FirstMagic(s) - 1))}

\* what the scan in front of the first wildcard can find: some of those
\* directories, each once, in the order the file system lists them
MatchedSeqs(s) ==
    {q \in UNION {[1..n -> MatchedBy(s)] : n \in 0..Cardinality(MatchedBy(s))} :
        \A i \in DOMAIN q, j \in DOMAIN q : i # j => q[i] # q[j]}

\* the result of calling what `name` is bound to; `orig` is how the original
\* ends ("running": it has been entered and has not ended)
Invocation(name, t, mapped_args, ctx, orig) ==
    protected_loop_func(bindings[name], Len(bindings[name]), t, mapped_args, ctx, sys_modules,
                        Ran(mapped_args, orig))

\* what is observed of a call; `flagged` counts the warnings of the guards of
\* the name called, `warnings` also those of the guards its original passes;
\* `modules` is the registry an import_module call found when it was made
Observation(name, t, mapped_args, ctx, orig, res) ==
    [name |-> name, thread |-> t, mapped_args |-> mapped_args,
     stack |-> ctx.stack, fault |-> ctx.fault, orig |-> orig,
     regs |-> bindings[name], nested |-> <<>>,
     installers |-> installers, tests |-> in_tests,
     modules |-> IF name = "import_module" THEN sys_modules ELSE {},
     outcome |-> res.outcome, flagged |-> res.warnings, warnings |-> res.warnings,
     evals |-> res.evals, origArgs |-> res.origArgs]

\* the caller takes the result of the latest call
Return ==
    /\ last # NoCall
    /\ last' = NoCall
    /\ UNCHANGED <<in_tests, bindings, sys_modules, installers, pc, turn, preemptions,
                   noted>>

Decided(e) == e.dec \in {"True", "False"}

\* no enable() call is under way
NoEnableRunning == \A t \in ThreadIds : ~InEnable(t)

\* an evaluation as it is remembered
Note(mapped_args, e) ==
    [pred |-> e.pred, mapped_args |-> mapped_args, dec |-> e.dec, frames |-> e.frames,
     changed |-> FALSE]

\* evaluations repeat the remembered one: the same predicate on the same arguments
Repeats(mapped_args, evs) ==
    \E k \in DOMAIN evs :
        /\ Decided(evs[k])
        /\ evs[k].pred = noted.pred /\ mapped_args = noted.mapped_args

\* what is kept of a step of a call that made the evaluations `fresh`.  Without
\* `log` the call is observed when it is `done`.  With `log` the first
\* evaluation that reaches a decision between enable() calls may be remembered,
\* and a later step is observed, with its own evaluations, when it repeats the
\* remembered evaluation.
Kept(log, obs, fresh, done) ==
    IF ~log
    THEN /\ noted' = noted
         /\ last' = IF done THEN obs ELSE NoCall
    ELSE \/ /\ noted' = noted
            /\ last' = IF Repeats(obs.mapped_args, fresh)
                       THEN [obs EXCEPT !.evals = fresh] ELSE NoCall
         \/ /\ noted = NoEval
            /\ NoEnableRunning
            /\ \E j \in DOMAIN fresh :
                  Decided(fresh[j]) /\ noted' = Note(obs.mapped_args, fresh[j])
            /\ last' = NoCall

\* the call can be remembered or can repeat the remembered evaluation
Comparable(name, mapped_args) ==
    \/ noted = NoEval
    \/ noted.pred = Registry(name).check_allowed /\ noted.mapped_args = mapped_args

\* thread t calls a guarded name other than glob and import_module: the guards
\* decide and the original, which reads no binding, runs to its end.  The call
\* is observed in `last` until Return.  (With `log`, a call that can neither be
\* remembered nor compared would change no variable.)
Call(name, t, mapped_args, ctx, orig, log) ==
    /\ name \notin {"glob", "import_module"}
    /\ CanCall(t)
    /\ log => Comparable(name, mapped_args)
    /\ \E res \in {Invocation(name, t, mapped_args, ctx, orig)} :
          Kept(log, Observation(name, t, mapped_args, ctx, orig, res), res.evals, TRUE)
    /\ UNCHANGED <<in_tests, bindings, sys_modules, installers, pc, turn, preemptions>>

\* thread t calls glob.glob: the guards of glob decide; when they let the call
\* through the original, list(iglob(...)), is entered and has not yet looked
\* up what iglob is bound to
CallGlob(t, mapped_args, ctx) ==
    /\ CanCall(t)
    /\ \E res \in {Invocation("glob", t, mapped_args, ctx, "running")} :
          IF res.origArgs = <<>>
          THEN /\ pc' = pc
               /\ last' = Observation("glob", t, mapped_args, ctx, "running", res)
          ELSE /\ pc' = [pc EXCEPT ![t] =
                           AtGlob("glob_iglob", 0,
                                  Observation("glob", t, mapped_args, ctx, "running", res),
                                  <<>>)]
               /\ last' = NoCall
    /\ UNCHANGED <<in_tests, bindings, sys_modules, installers, turn, preemptions, noted>>

\* the guards a call of the module attribute `name` passes inside the original
\* glob.glob, with what `name` is bound to at that moment
NestedCall(name, t, mapped_args, ctx) ==
    protected_loop_func(bindings[name], Len(bindings[name]), t, mapped_args,
                        [stack |-> <<S_glob_py>> \o ctx.stack, fault |-> ctx.fault],
                        sys_modules, Ran(mapped_args, "running"))

\* the call so far, after the original glob.glob called `name` with result res
Nested(c, name, res) ==
    [c EXCEPT !.nested = Append(@, bindings[name]),
              !.warnings = @ + res.warnings,
              !.evals = @ \o res.evals,
              !.outcome = res.outcome]

\* a step of the original glob.glob on thread t: it goes on to `stage`; or it
\* made its last call and ends, returning or raising, or a guard raised; then
\* the call is observed in `last`
GlobStep(t, c, stage, ends) ==
    /\ pc' = [pc EXCEPT ![t] = IF ends \/ c.outcome # "running" THEN Idle ELSE stage]
    /\ IF c.outcome # "running" THEN last' = c
       ELSE IF ends
            THEN \E orig \in OrigOutcomes : last' = [c EXCEPT !.orig = orig, !.outcome = orig]
            ELSE last' = NoCall
    /\ UNCHANGED <<in_tests, bindings, sys_modules, installers, turn, preemptions, noted>>

\* the original glob.glob calls what the module global iglob is bound to; with
\* no wildcard in the pathname that is its last call
GlobIglob(t) ==
    /\ ResultTaken
    /\ pc[t].at = "glob_iglob"
    /\ \E c \in {pc[t].call} :
       \E res \in {NestedCall("iglob", t, IglobArgs(c.mapped_args),
                              [stack |-> c.stack, fault |-> c.fault])} :
       \E seen \in {Nested(c, "iglob", res)} :
          GlobStep(t, seen, AtGlob("glob_scandir", 0, seen, <<>>),
                   ~has_magic(NamedValue(c.mapped_args).val))

\* consuming the iterator, the original glob.glob calls what os.scandir is
\* bound to on the directory in front of the first wildcard; when a later
\* component has a wildcard too, the directories the scan matched are to be
\* scanned next
GlobScandir(t) ==
    /\ ResultTaken
    /\ pc[t].at = "glob_scandir"
    /\ \E c \in {pc[t].call} :
       \E pathname \in {NamedValue(c.mapped_args)} :
       \E res \in {NestedCall("scandir", t, ScandirCalls(pathname, <<>>)[1],
                              [stack |-> c.stack, fault |-> c.fault])} :
       \E seen \in {Nested(c, "scandir", res)} :
          IF LaterMagic(pathname.val)
          THEN \E matched \in MatchedSeqs(pathname.val) :
                  GlobStep(t, seen, AtGlob("glob_matched", 0, seen, matched), matched = <<>>)
          ELSE GlobStep(t, seen, Idle, TRUE)

\* the original glob.glob scans the next of the matched directories
GlobMatched(t) ==
    /\ ResultTaken
    /\ pc[t].at = "glob_matched"
    /\ \E c \in {pc[t].call} :
       \E k \in {pc[t].k + 1} :
       \E res \in {NestedCall("scandir", t,
                              ScandirCalls(NamedValue(c.mapped_args), pc[t].dirs)[k + 1],
                              [stack |-> c.stack, fault |-> c.fault])} :
       \E seen \in {Nested(c, "scandir", res)} :
          GlobStep(t, seen, AtGlob("glob_matched", k, seen, pc[t].dirs), k = Len(pc[t].dirs))

\* the greatest layer of regs, at or below i, that guards thread t (0: none)
TopMatching(regs, i, t) ==
    IF \E j \in 1..i : regs[j].loop_thread_id = t
    THEN CHOOSE j \in 1..i :
             /\ regs[j].loop_thread_id = t
             /\ \A k \in (j + 1)..i : regs[k].loop_thread_id # t
    ELSE 0

\* the module the original import_module is asked for: a name that is no str
\* names none, and the original fails before it looks at the registry
NoModule == <<>>
ModuleAsked(mapped_args) ==
    IF NamedValue(mapped_args).key = "str" THEN NamedModule(mapped_args) ELSE NoModule

\* layer k of the guards of import_module evaluates for the call c, reading the
\* registry as it is at this moment: the call afterwards, the evaluations
\* made, and the layer of the calling thread that comes next (0: none)
ImportLayer(c, k) ==
    LET d == GuardLayer(c.regs, k, c.mapped_args, [stack |-> c.stack, fault |-> c.fault],
                        sys_modules)
        blocked == d.action \notin {"proceed", "warn"}
        next == IF blocked THEN 0 ELSE TopMatching(c.regs, k - 1, c.thread)
        warned == IF d.action = "warn" THEN 1 ELSE 0
    IN [call |-> [c EXCEPT !.evals = @ \o d.evals,
                           !.flagged = @ + warned,
                           !.warnings = @ + warned,
                           !.outcome = IF blocked THEN d.action ELSE "running",
                           !.origArgs = IF ~blocked /\ next = 0 THEN <<c.mapped_args>>
                                        ELSE <<>>],
        fresh |-> d.evals, next |-> next, blocked |-> blocked]

\* (variant: the guard loads the module it is asked about)
ImportProgress_loading(t, r, log) ==
    /\ pc' = [pc EXCEPT ![t] =
                 IF r.blocked THEN Idle
                 ELSE IF r.next = 0
                      THEN AtImport("import_decided", ModuleAsked(r.call.mapped_args))
                      ELSE AtGuard(r.next, r.call)]
    /\ Kept(log, r.call, r.fresh, r.blocked \/ r.next = 0)
    /\ sys_modules' = sys_modules \cup ({ModuleAsked(r.call.mapped_args)} \ {NoModule})
    /\ UNCHANGED <<in_tests, bindings, installers, turn, preemptions>>

\* a guard layer of import_module has evaluated with result r: the call ends
\* when the layer raises, goes on to the next layer of the calling thread, or
\* enters the original, which has not yet looked at the registry.  A guard
\* writes nothing.
ImportProgress(t, r, log) ==
    /\ pc' = [pc EXCEPT ![t] =
                 IF r.blocked THEN Idle
                 ELSE IF r.next = 0
                      THEN AtImport("import_decided", ModuleAsked(r.call.mapped_args))
                      ELSE AtGuard(r.next, r.call)]
    /\ Kept(log, r.call, r.fresh, r.blocked \/ r.next = 0)
    /\ sys_modules' = sys_modules
    /\ UNCHANGED <<in_tests, bindings, installers, turn, preemptions>>

\* a call of import_module on thread t before any guard has evaluated
ImportCalled(t, mapped_args) ==
    Observation("import_module", t, mapped_args, DefaultContext, "running",
                [outcome |-> "running", warnings |-> 0, evals |-> <<>>, origArgs |-> <<>>])

\* thread t calls import_module: the outermost guard layer of the calling
\* thread evaluates; with no such layer the original is entered
CallImport(t, mapped_args, log) ==
    /\ CanCall(t)
    /\ LET c == ImportCalled(t, mapped_args)
           k == TopMatching(c.regs, Len(c.regs), t)
       IN IF k = 0
          THEN ImportProgress(t, [call |-> [c EXCEPT !.origArgs = <<mapped_args>>],
                                  fresh |-> <<>>, next |-> 0, blocked |-> FALSE], log)
          ELSE ImportProgress(t, ImportLayer(c, k), log)

\* the call of thread t reaches its next guard layer, which evaluates on the
\* registry as it is now
ImportGuard(t, log) ==
    /\ ResultTaken
    /\ pc[t].at = "import_guard"
    /\ ImportProgress(t, ImportLayer(pc[t].call, pc[t].k), log)

\* the modules a finder can locate
Findable == {S_os, S_yaml}

\* how the original import_module starts for module m on thread t: m is no
\* module name ("fails"), another thread is importing m ("wait"), m is in the
\* registry ("loaded"), no finder locates m ("missing"), or t registers m
\* and executes its body ("body")
StartKind(t, m) ==
    IF m = NoModule THEN "fails"
    ELSE IF \E u \in ThreadIds \ {t} :
                pc[u].at \in {"import_body", "import_popped"} /\ pc[u].module = m
         THEN "wait"
    ELSE IF m \in sys_modules THEN "loaded"
    ELSE IF m \notin Findable THEN "missing"
    ELSE "body"

\* the remembered evaluation, after a step of an import that leaves the
\* registry as `modules`: whether the module it asked about came or went
Registered(modules) ==
    IF /\ noted.pred = "_check_import_call_allowed"
       /\ (NamedModule(noted.mapped_args) \in modules)
              # (NamedModule(noted.mapped_args) \in sys_modules)
    THEN [noted EXCEPT !.changed = TRUE]
    ELSE noted

\* the original import_module looks the module up: it returns a registered
\* module, waits while another thread imports the module, raises
\* ModuleNotFoundError for a module no finder locates, writing nothing, or
\* registers the module and executes the body itself
ImportStart(t) ==
    /\ ResultTaken
    /\ pc[t].at \in {"import_decided", "import_wait"}
    /\ \E kind \in {StartKind(t, pc[t].module)} :
          /\ pc[t].at = "import_wait" => kind # "wait"
          /\ sys_modules' = IF kind = "body" THEN sys_modules \cup {pc[t].module}
                            ELSE sys_modules
          /\ pc' = [pc EXCEPT ![t] =
                       CASE kind = "wait" -> AtImport("import_wait", pc[t].module)
                         [] kind = "body" -> AtImport("import_body", pc[t].module)
                         [] OTHER -> Idle]
    /\ last' = NoCall
    /\ noted' = Registered(sys_modules')
    /\ UNCHANGED <<in_tests, bindings, installers, turn, preemptions>>

\* the body of the module t imports ends: a module whose body fails is
\* removed from the registry; after a body that succeeds the module is taken
\* out of the registry, to be put back
ImportEnd(t, orig) ==
    /\ ResultTaken
    /\ pc[t].at = "import_body"
    /\ sys_modules' = sys_modules \ {pc[t].module}
    /\ pc' = [pc EXCEPT ![t] =
                 IF orig = "raise" THEN Idle ELSE AtImport("import_popped", pc[t].module)]
    /\ last' = NoCall
    /\ noted' = Registered(sys_modules')
    /\ UNCHANGED <<in_tests, bindings, installers, turn, preemptions>>

\* the module taken out of the registry is put back, and the import returns
ImportReinsert(t) ==
    /\ ResultTaken
    /\ pc[t].at = "import_popped"
    /\ sys_modules' = sys_modules \cup {pc[t].module}
    /\ pc' = [pc EXCEPT ![t] = Idle]
    /\ last' = NoCall
    /\ noted' = Registered(sys_modules')
    /\ UNCHANGED <<in_tests, bindings, installers, turn, preemptions>>

Init ==
    /\ in_tests \in BOOLEAN
    /\ bindings = [n \in Names |-> <<>>]
    /\ sys_modules = InitialModules
    /\ installers = <<>>
    /\ pc = [t \in ThreadIds |-> Idle]
    /\ turn = 0
    /\ preemptions = 0
    /\ last = NoCall
    /\ noted = NoEval

\* the steps of enable() calls; `limit` is how often one call may overtake another
Install(limit) ==
    \E t \in ThreadIds :
        \/ EnableBegin(t, limit)
        \/ EnableRead(t, limit)
        \/ EnableStore(t, limit)

\* the steps of the original glob.glob
Globs ==
    \E t \in ThreadIds :
        \/ GlobIglob(t)
        \/ GlobScandir(t)
        \/ GlobMatched(t)

\* the steps of the original import_module
Imports ==
    \E t \in ThreadIds :
        \/ ImportStart(t)
        \/ \E orig \in OrigOutcomes : ImportEnd(t, orig)
        \/ ImportReinsert(t)

\* enable() calls, overlapping or not, and the calls of every guarded name
\* but import_module
Next ==
    \/ Install(MaxPreemptions)
    \/ \E t \in Callers, name \in Names \ {"glob", "import_module"}, orig \in OrigOutcomes :
          \E mapped_args \in ArgShapes(name), ctx \in Contexts(name) :
             Call(name, t, mapped_args, ctx, orig, FALSE)
    \/ \E t \in Callers : \E mapped_args \in ArgShapes("glob") :
          CallGlob(t, mapped_args, DefaultContext)
    \/ Globs
    \/ Return

Spec == Init /\ [][Next]_vars

\* enable() calls, overlapping or not, and the calls of import_module
NextImport ==
    \/ Install(MaxPreemptions)
    \/ \E t \in Callers : \E mapped_args \in ArgShapes("import_module") :
          CallImport(t, mapped_args, FALSE)
    \/ \E t \in ThreadIds : ImportGuard(t, FALSE)
    \/ Imports
    \/ Return

SpecImport == Init /\ [][NextImport]_vars

\* the names registered lenient
LenientNames == {"glob", "iglob", "listdir", "scandir", "open", "import_module"}

\* call shapes of the lenient names that have no exemption, unless the module
\* named is loaded by the time a guard looks
Unexempted(name) ==
    CASE name = "glob" -> {Positional(Str(S_et_star_h_star))}
      [] name = "import_module" -> {Positional(Str(S_yaml)), ByKeyword(name, Str(S_os))}
      [] OTHER -> {ByKeyword(name, Str(S_etc))}

\* enable() calls, overlapping or not, and the calls of every lenient name
NextNest ==
    \/ Install(MaxPreemptions)
    \/ \E t \in Callers, name \in LenientNames \ {"glob", "import_module"} :
          \E mapped_args \in Unexempted(name) :
             Call(name, t, mapped_args, DefaultContext, "return", FALSE)
    \/ \E t \in Callers : \E mapped_args \in Unexempted("glob") :
          CallGlob(t, mapped_args, DefaultContext)
    \/ \E t \in Callers : \E mapped_args \in Unexempted("import_module") :
          CallImport(t, mapped_args, FALSE)
    \/ Globs
    \/ \E t \in ThreadIds : ImportGuard(t, FALSE)
    \/ Imports
    \/ Return

SpecNest == Init /\ [][NextNest]_vars

\* the names registered with an allow predicate
PredicateNames == {"sleep", "open"}

\* the calls whose evaluations are remembered and compared
Probes(name) ==
    CASE name = "sleep" -> ArgShapes(name)
      [] name = "open" -> {Positional(Str(S_proc_1)), Positional(Str(S_etc))}
      [] name = "import_module" -> {Positional(Str(S_yaml)), ByKeyword(name, Str(S_yaml))}

ProbeContexts(name) ==
    IF name = "sleep"
    THEN {DefaultContext, [stack |-> <<S_dbg_pydevd_py, S_dbg_pydevd_py>>, fault |-> "none"]}
    ELSE {DefaultContext}

\* a step in which allow predicates are evaluated, remembering their decisions
Evaluates ==
    \/ \E t \in Callers, name \in PredicateNames :
          \E mapped_args \in Probes(name), ctx \in ProbeContexts(name) :
             Call(name, t, mapped_args, ctx, "return", TRUE)
    \/ \E t \in Callers : \E mapped_args \in Probes("import_module") :
          CallImport(t, mapped_args, TRUE)
    \/ \E t \in ThreadIds : ImportGuard(t, TRUE)

\* the same program, remembering the decisions of the allow predicates
NextIdem ==
    \/ Install(MaxPreemptions)
    \/ Evaluates
    \/ Imports
    \/ Return

SpecIdem == Init /\ [][NextIdem]_vars

(* ======================== properties of the guard ====================== *)
\* the registrations among regs whose loop thread is thread t
Matching(regs, t) == {i \in DOMAIN regs : regs[i].loop_thread_id = t}

\* the registrations of the latest call whose loop thread is the calling thread
MatchingLayers(l) == Matching(l.regs, l.thread)

OnLoopThread(l) == MatchingLayers(l) # {}

\* the original ran exactly once, with the caller's arguments, and its result
\* or failure is what the caller got
Delegated(l) == l.origArgs = <<l.mapped_args>> /\ l.outcome = l.orig

\* the loop thread of each layer, innermost first
LayerIds(regs) == [i \in DOMAIN regs |-> regs[i].loop_thread_id]

RECURSIVE Sum(_)
Sum(f) == IF f = <<>> THEN 0 ELSE Head(f) + Sum(Tail(f))

\* the layers of the calling thread among the guards the latest call passed:
\* those of the name called and those of the names its original called
LayersPassed(l) ==
    Cardinality(MatchingLayers(l))
        + Sum([i \in DOMAIN l.nested |-> Cardinality(Matching(l.nested[i], l.thread))])

\* C1: a guarded callable invoked on a thread other than the one(s) that ran
\* enable() calls the original exactly once with the same arguments and returns
\* its result or propagates its failure; no violation, no warning, and no allow
\* predicate is evaluated.
C1_NonLoopThreadDelegates ==
    (last.name # "none" /\ last.regs # <<>> /\ last.thread \notin Range(last.installers))
        => (Delegated(last) /\ last.warnings = 0 /\ last.evals = <<>>)

C1_Witness ==
    /\ last.name = "open" /\ last.regs # <<>>
    /\ last.thread \notin Range(last.installers)
    /\ last.mapped_args = Positional(Str(S_etc))
    /\ last.outcome = "raise" /\ last.origArgs = <<last.mapped_args>>

\* every allow predicate evaluated during the latest call returned False
AllDenied(l) == \A k \in DOMAIN l.evals : l.evals[k].dec = "False"

\* C2: after enable(), putrequest or sleep invoked on the loop thread with no
\* matching exemption (no predicate, or the predicate answered False) raises
\* the blocking-call violation and the original is never executed.
C2_StrictRaises ==
    (last.name \in {"putrequest", "sleep"} /\ OnLoopThread(last) /\ AllDenied(last))
        => (last.outcome = "violation" /\ last.origArgs = <<>>)

C2_Witness ==
    /\ last.name = "sleep" /\ OnLoopThread(last)
    /\ last.evals # <<>> /\ AllDenied(last)
    /\ last.outcome = "violation" /\ last.origArgs = <<>>

\* C3 (as stated): under the test harness a completed enable() leaves glob,
\* iglob, listdir, scandir, open and import_module bound to their originals and
\* wraps only putrequest and sleep.
C3_LastFourRowsSkipped ==
    (in_tests /\ installers # <<>> /\ NoEnableRunning)
        => /\ \A n \in {"glob", "iglob", "listdir", "scandir", "open", "import_module"} :
                 bindings[n] = <<>>
           /\ \A n \in {"putrequest", "sleep"} : bindings[n] # <<>>

\* C3 (amended): under the test harness enable() leaves listdir, scandir, open
\* and import_module bound to their originals, so their calls are delegated
\* silently, and wraps putrequest, sleep, glob and iglob, so that a glob call
\* that passes a guard of the calling thread still warns.
C3_LastThreeRowsSkipped ==
    /\ in_tests => \A n \in {"listdir", "scandir", "open", "import_module"} : bindings[n] = <<>>
    /\ (in_tests /\ installers # <<>> /\ NoEnableRunning)
          => \A n \in {"putrequest", "sleep", "glob", "iglob"} : bindings[n] # <<>>
    /\ (last.tests /\ last.name \in {"listdir", "scandir", "open", "import_module"})
          => (last.regs = <<>> /\ Delegated(last) /\ last.warnings = 0)
    /\ (last.tests /\ last.name \in {"glob", "iglob"} /\ LayersPassed(last) > 0)
          => (last.warnings >= 1 /\ Delegated(last))

C3_Witness ==
    /\ in_tests /\ installers # <<>> /\ NoEnableRunning
    /\ last.tests /\ last.name = "glob" /\ last.warnings = 2 /\ Delegated(last)
    /\ bindings["open"] = <<>>

\* the path an invocation names, as text, however it is passed
PathText(mapped_args) == NamedValue(mapped_args).val

\* C4: outside the test harness, open, listdir, scandir, glob and iglob invoked
\* on the loop thread execute the original silently when the path begins with
\* "/proc", and warn and still execute the original with any other path.
C4_PrivilegedPathsSilent ==
    (~last.tests /\ last.name \in {"open", "listdir", "scandir", "glob", "iglob"}
        /\ OnLoopThread(last))
        => /\ Delegated(last)
           /\ startswith(PathText(last.mapped_args), S_proc) => last.warnings = 0
           /\ ~startswith(PathText(last.mapped_args), S_proc) => last.warnings >= 1

\* C5: _check_file_allowed and _check_import_call_allowed, given mapped
\* arguments with no positional argument, answer False and raise nothing.
C5_PredicatesFailClosed ==
    \A k \in DOMAIN last.evals :
        (last.evals[k].pred \in {"_check_file_allowed", "_check_import_call_allowed"}
            /\ last.mapped_args.args = <<>>)
            => last.evals[k].dec = "False"

\* C6: every failure of frame introspection is caught inside the sleep
\* predicate and decides "not exempt"; the caller of sleep sees only the
\* original's own outcome or the blocking-call violation.
C6_SleepPredicateCatchesAll ==
    last.name = "sleep"
        => /\ \A k \in DOMAIN last.evals : last.evals[k].dec \in {"True", "False"}
           /\ last.outcome \in {"return", "raise", "violation"}

\* C8 (as stated): outside the test harness, import_module on the loop thread
\* naming a loaded module, positionally or by keyword, runs the original with
\* no warning; naming an absent module warns and runs the original; no violation.
C8_LoadedModuleSilent ==
    (~last.tests /\ last.name = "import_module" /\ OnLoopThread(last))
        => /\ Delegated(last)
           /\ NamedModule(last.mapped_args) \in last.modules => last.warnings = 0
           /\ NamedModule(last.mapped_args) \notin last.modules => last.warnings >= 1

\* C8 (amended): outside the test harness, import_module on the loop thread
\* always runs the original and never raises a violation; it runs with no
\* warning when the module name is the first positional argument and the
\* module is in the registry each time a guard checks it; it warns and then
\* runs the original when the module is absent at a check, and also when the
\* name is passed by keyword, whether the module is loaded or not.
C8_LoadedPositionalModuleSilent ==
    (/\ ~last.tests /\ last.name = "import_module" /\ OnLoopThread(last)
     /\ NamedValue(last.mapped_args).key = "str")
        => /\ Delegated(last)
           /\ (/\ Len(last.mapped_args.args) > 0
               /\ \A k \in DOMAIN last.evals :
                      NamedModule(last.mapped_args) \in last.evals[k].modules)
                 => last.warnings = 0
           /\ (\/ Len(last.mapped_args.args) = 0
               \/ \E k \in DOMAIN last.evals :
                      NamedModule(last.mapped_args) \notin last.evals[k].modules)
                 => last.warnings >= 1

C8_Witness ==
    /\ ~last.tests /\ last.name = "import_module" /\ OnLoopThread(last)
    /\ last.mapped_args = ByKeyword("import_module", Str(S_os))
    /\ S_os \in last.modules
    /\ last.warnings >= 1 /\ Delegated(last)

\* C9: sleep on the loop thread is exempted (the original runs, nothing is
\* raised by the guard) exactly when the file of the frame that called sleep
\* ends in "pydevd.py"; otherwise the violation is raised.
C9_OffenderFrameDecides ==
    (last.name = "sleep" /\ OnLoopThread(last) /\ last.fault = "none")
        => IF endswith(last.stack[1], S_pydevd_py)
           THEN Delegated(last)
           ELSE last.outcome = "violation" /\ last.origArgs = <<>>

(* -------------------------- repeated installs -------------------------- *)
\* C10: enable() has no install-once protection: after k calls, none of which
\* overlapped another, every guarded name carries k guard layers, the i-th
\* bound to the thread of the i-th call; a lenient call with no exemption, on a
\* thread that both of two layers guard, is flagged twice by the guards of the
\* name called and runs the original once.
C10_ReinstallNests ==
    /\ (NoEnableRunning /\ preemptions = 0)
          => \A n \in GuardedNames(in_tests) : LayerIds(bindings[n]) = installers
    /\ (/\ last.name \in LenientNames /\ AllDenied(last)
        /\ LayerIds(last.regs) = <<last.thread, last.thread>>)
          => (last.flagged = 2 /\ Delegated(last))

C10_Witness ==
    /\ NoEnableRunning /\ preemptions = 0 /\ installers = <<1, 1>>
    /\ \A n \in GuardedNames(in_tests) : Len(bindings[n]) = 2
    /\ last.name = "import_module" /\ last.thread = 1
    /\ last.mapped_args = Positional(Str(S_yaml))
    /\ LayerIds(last.regs) = <<1, 1>>
    /\ last.flagged = 2 /\ Delegated(last)

(* ----------------- histories of predicate evaluations ------------------ *)
\* the evaluations of the latest step that repeat the remembered one: the same
\* predicate on the same arguments
Echoes ==
    {e \in Range(last.evals) :
        /\ noted.pred # "none" /\ Decided(e)
        /\ e.pred = noted.pred /\ last.mapped_args = noted.mapped_args}

\* C7 (as stated): two evaluations of the same allow predicate with the same
\* arguments yield the same decision at any two points of a run.
C7_SameArgumentsSameDecision ==
    \A e \in Echoes : e.dec = noted.dec

\* two evaluations of the same predicate on the same arguments agree when
\* what the predicate reads besides its arguments is the same at both
AgreeUnlessChanged ==
    \A e \in Echoes :
        /\ noted.pred = "_check_file_allowed" => e.dec = noted.dec
        /\ (noted.pred = "_check_import_call_allowed" /\ ~noted.changed) => e.dec = noted.dec
        /\ (noted.pred = "_check_sleep_call_allowed" /\ e.frames = noted.frames)
              => e.dec = noted.dec

\* C7 (amended): the privileged-path predicate yields the same decision for the
\* same arguments at any two points of a run; two evaluations of the
\* already-loaded-module predicate with the same arguments agree unless an
\* import put the named module into the registry, or took it out, between
\* them; two evaluations of the debugger-frame predicate agree when the frames
\* above them are the same; and a step that evaluates predicates changes
\* neither the registry nor the bindings.
C7_DecisionFollowsRegistry ==
    /\ []AgreeUnlessChanged
    /\ [][UNCHANGED <<sys_modules, bindings, installers, in_tests>> \/ ~Evaluates]_vars

C7_Witness ==
    /\ noted.pred = "_check_import_call_allowed"
    /\ noted.mapped_args = Positional(Str(S_yaml))
    /\ noted.dec = "True" /\ noted.changed
    /\ \E e \in Echoes : e.dec = "False"

====
